---- MODULE Spec2Model ----
(***************************************************************************)
(* A model of RequestFactory (src/src/RequestFactory.js): the request and  *)
(* the response module pipelines, the registry of abort controllers and    *)
(* the construction of the module execution context.                       *)
(*                                                                         *)
(* JavaScript runs one task at a time and a call gives up control only at  *)
(* an `await`.  Every action below is one such uninterrupted stretch of a  *)
(* call: from the point where an awaited promise settles to the next       *)
(* `await` (or to the return).  Calls of processRequest, processResponse   *)
(* and abort made by the host interleave at these points.                  *)
(***************************************************************************)
EXTENDS Integers, Sequences, FiniteSets, TLC

\* ---------------------------------------------------------------- bounds

\* The number of processRequest / processResponse calls made in one run.
MaxCalls == 2
\* The number of modules registered for each of the two pipelines.
NumModules == 2
\* The longest `permissions` array given to buildExecutionContext on its own.
MaxPermissions == 2

\* The request identifiers the host uses.
Ids == {"a", "b"}
\* The messages of the errors a module may throw.
ErrorMessages == {"boom", "bang"}
\* The environments the environment provider may report.
Environments == {"default", "staging", "production"}
\* The permission strings a module may declare; "other" is one the factory
\* does not know.
PermissionNames == {"environment", "events", "store", "other"}

VARIABLES
  abortControllers,  \* this.abortControllers: id -> controller, NoToken if absent
  aborted,           \* the controllers whose signal.aborted is true
  calls,             \* the processRequest / processResponse calls made so far
  phase,             \* per id: what happened since processRequest last returned it
  live,              \* per id: processRequest returned the request and since then
                     \* no abort was called and no processResponse resolved
  cPermissions,      \* a permissions array handed to buildExecutionContext
  cEnvironment,      \* the environment handed to buildExecutionContext
  cContext           \* the context buildExecutionContext returned for them

vars == <<abortControllers, aborted, calls, phase, live, cPermissions, cEnvironment, cContext>>

\* ------------------------------------------------------ values of the code

\* What Map.get answers for a key that is not in the map (undefined).
NoToken == 0

\* ExecutionResponse.ABORT, and any other value a module returns.
ABORT == "ABORT"
CONTINUE == "CONTINUE"

\* The event target given to the constructor.
EventsTarget == "eventsTarget"

\* The environment ArcModelEvents.Environment.current resolves to.
CurrentEnvironment == "default"

\* The `environment` of a call that has not fetched it yet.
NoEnvironment == ""

\* Array.prototype.includes.
Includes(array, value) == \E i \in DOMAIN array : array[i] = value

\* Map.prototype.delete and Map.prototype.set on the controllers map.
MapDelete(map, id) == [map EXCEPT ![id] = NoToken]
MapSet(map, id, controller) == [map EXCEPT ![id] = controller]

\* ------------------------------------------------------ execution context

\* prepareExecutionEvents: the names bundled into the Events capability.
PrepareExecutionEvents ==
  {"ArcNavigationEvents", "SessionCookieEvents", "EncryptionEvents",
   "GoogleDriveEvents", "ProcessEvents", "WorkspaceEvents", "RequestEvents",
   "AuthorizationEvents", "ConfigEvents"}

\* A store that ignores `hasEnvironment` and always adds the environment
\* entries.
PrepareExecutionStoreAlways(hasEnvironment) ==
  {"AuthData", "ClientCertificate", "HostRules", "Project", "Request",
   "RestApi", "UrlHistory", "UrlIndexer", "WSUrlHistory",
   "Environment", "Variable"}

\* prepareExecutionStore: the names bundled into the Store capability.
PrepareExecutionStore(hasEnvironment) ==
  {"AuthData", "ClientCertificate", "HostRules", "Project", "Request",
   "RestApi", "UrlHistory", "UrlIndexer", "WSUrlHistory"}
  \cup (IF hasEnvironment THEN {"Environment", "Variable"} ELSE {})

\* buildExecutionContext: the frozen object, as a function from the names of
\* the fields it has to their values.
BuildExecutionContext(permissions, environment) ==
  LET hasEnvironment == Includes(permissions, "environment")
      fields == {"eventsTarget"}
                \cup (IF hasEnvironment THEN {"environment"} ELSE {})
                \cup (IF Includes(permissions, "events") THEN {"Events"} ELSE {})
                \cup (IF Includes(permissions, "store") THEN {"Store"} ELSE {})
  IN [f \in fields |->
        CASE f = "eventsTarget" -> {EventsTarget}
          [] f = "environment"  -> {environment}
          [] f = "Events"       -> PrepareExecutionEvents
          [] f = "Store"        -> PrepareExecutionStore(hasEnvironment)]

\* No context: the call has not built one yet.
NoContext == [f \in {} |-> {}]

\* ------------------------------------------------------- modules registry

\* The permissions the registered modules declare, taken in turn: the first
\* two modules of each pipeline are given the environment.
DeclaredPermissions ==
  << <<"store">>, <<"environment", "store">>, <<"environment", "events">>,
     <<>>, <<"events">> >>

\* ModulesRegistry.get(kind): the registered modules in registration order,
\* each with its id and its permissions.
ModulesRegistryGet(kind) ==
  [i \in 1..NumModules |->
     [id |-> <<kind, i>>,
      permissions |-> DeclaredPermissions[
         ((i + (IF kind = "request" THEN 0 ELSE 1)) % Len(DeclaredPermissions)) + 1]]]

\* ------------------------------------------------------------------ calls

NoMessage == [prefix |-> "", id |-> <<"", 0>>, infix |-> "", message |-> ""]

\* A message that leaves the module's id out.
WrapMessageNoId(id, message) ==
  [prefix |-> "Request module ", id |-> <<"", 0>>,
   infix |-> " reported error: ", message |-> message]

\* The template string of executeRequestModule / executeResponseModule:
\* `Request module ${id} reported error: ${e.message}`.
WrapMessage(id, message) ==
  [prefix |-> "Request module ", id |-> id,
   infix |-> " reported error: ", message |-> message]

\* What a call has come to: pending, or resolved with the request, with null
\* or with nothing (processResponse), or rejected with an error.
Outcome(status, message) == [status |-> status, message |-> message]

\* A call as it starts.  `token` is the controller the call polls, `ctx` the
\* context as it was handed to the module the call is at, `environment` the
\* content of the environment object the call fetched.  follows,
\* abortBetween, abortAt, abortK, signalled, threw and thrown record what
\* happened to the call; the code does not read them.
NewCall(kind, id, token, follows, abortBetween) ==
  [kind |-> kind, id |-> id, token |-> token, pc |-> "actions", idx |-> 1,
   log |-> <<>>, marks |-> <<>>, ctx |-> NoContext, environment |-> NoEnvironment,
   result |-> Outcome("pending", NoMessage),
   follows |-> follows, abortBetween |-> abortBetween,
   abortAt |-> "none", abortK |-> 0, signalled |-> 0, threw |-> 0,
   thrown |-> ""]

Init ==
  /\ abortControllers = [id \in Ids |-> NoToken]
  /\ aborted = {}
  /\ calls = <<>>
  /\ phase = [id \in Ids |-> "none"]
  /\ live = [id \in Ids |-> FALSE]
  /\ cPermissions = <<>>
  /\ cEnvironment = CurrentEnvironment
  /\ cContext = NoContext


\* ------------------------------------------------------ the module loops

\* A loop that takes the modules last registered first.
ModuleAtReversed(call) ==
  ModulesRegistryGet(call.kind)[NumModules + 1 - call.idx]

\* `const [id, main] of modules` (lines 85, 120): the module a call is at.
ModuleAt(call) == ModulesRegistryGet(call.kind)[call.idx]

\* `for (const [id, main] of modules)`: the step to the next module.
NextIndex(idx) == idx + 1

\* A check that never recognises the ABORT signal.
IsAbortNever(result) == FALSE

\* `result === ExecutionResponse.ABORT`.
IsAbort(result) == result = ABORT

\* signal.aborted of the controller a call holds.
SignalAborted(call, abortedNow) == call.token \in abortedNow

\* A call that has returned.
Finished(call, status, message) ==
  [call EXCEPT !.pc = "done", !.result = Outcome(status, message)]

\* The head of the loop reached with a module to run and the signal clear:
\* executeRequestModule / executeResponseModule is called and awaits
\* buildExecutionContext.
EnterModule(call) ==
  [call EXCEPT !.pc = "ctx",
               !.ctx = BuildExecutionContext(ModuleAt(call).permissions,
                                             call.environment)]

\* processRequest from the head of its loop (lines 85-97) to its next await
\* or its return: the call and the controllers map it leaves.
RequestLoop(call, controllers, abortedNow) ==
  IF call.idx > NumModules
  THEN [call |-> Finished(call, "request", NoMessage),
        controllers |-> MapSet(controllers, call.id, call.token)]
  ELSE IF SignalAborted(call, abortedNow)
  THEN [call |-> Finished(call, "null", NoMessage),
        controllers |-> MapDelete(controllers, call.id)]
  ELSE [call |-> EnterModule(call), controllers |-> controllers]

\* A response pipeline that leaves the controller registered when a module
\* returns ABORT, as the request pipeline does.
ResponseOnAbortKeeping(controllers, id) == controllers

\* processResponse, lines 127-130: a module returned ABORT.
ResponseOnAbort(controllers, id) == MapDelete(controllers, id)

\* A response loop that ends one module early.
ResponseLoopOffByOne(call, controllers, abortedNow) ==
  IF call.idx >= NumModules
  THEN [call |-> Finished(call, "resolved", NoMessage),
        controllers |-> MapDelete(controllers, call.id)]
  ELSE IF SignalAborted(call, abortedNow)
  THEN [call |-> Finished(call, "resolved", NoMessage),
        controllers |-> MapDelete(controllers, call.id)]
  ELSE [call |-> EnterModule(call), controllers |-> controllers]

\* processResponse from the head of its loop (lines 120-133) to its next
\* await or its return.
ResponseLoop(call, controllers, abortedNow) ==
  IF call.idx > NumModules
  THEN [call |-> Finished(call, "resolved", NoMessage),
        controllers |-> MapDelete(controllers, call.id)]
  ELSE IF SignalAborted(call, abortedNow)
  THEN [call |-> Finished(call, "resolved", NoMessage),
        controllers |-> MapDelete(controllers, call.id)]
  ELSE [call |-> EnterModule(call), controllers |-> controllers]

Loop(call, controllers, abortedNow) ==
  IF call.kind = "request"
  THEN RequestLoop(call, controllers, abortedNow)
  ELSE ResponseLoop(call, controllers, abortedNow)

\* What a module's function does: it returns a value or throws an error.
ModuleOutcomes ==
  {[type |-> "return", value |-> v, message |-> ""] : v \in {CONTINUE, ABORT}}
  \cup {[type |-> "throw", value |-> "", message |-> m] : m \in ErrorMessages}

\* The call once its module has settled: the log and the request carry the
\* module's run, whatever its outcome, and the call records an ABORT
\* returned (signalled) or an error thrown (threw, thrown).
Settled(call, outcome) ==
  [call EXCEPT !.log = Append(@, <<"end", ModuleAt(call).id>>),
               !.marks = Append(@, ModuleAt(call).id),
               !.signalled = IF outcome.type = "return" /\ outcome.value = ABORT
                             THEN call.idx ELSE @,
               !.threw = IF outcome.type = "throw" THEN call.idx ELSE @,
               !.thrown = IF outcome.type = "throw" THEN outcome.message ELSE @]

\* A call from the point where its module settles to its next await or its
\* return: executeRequestModule lines 146-154 and processRequest lines
\* 91-97, executeResponseModule lines 170-178 and processResponse lines
\* 126-133.
AfterModule(call, controllers, abortedNow, outcome) ==
  IF outcome.type = "throw"
  THEN [call |-> Finished(Settled(call, outcome), "rejected",
                          WrapMessage(ModuleAt(call).id, outcome.message)),
        controllers |-> controllers]
  ELSE IF IsAbort(outcome.value)
  THEN [call |-> Finished(Settled(call, outcome),
                          IF call.kind = "request" THEN "null" ELSE "resolved",
                          NoMessage),
        controllers |-> IF call.kind = "request"
                        THEN controllers
                        ELSE ResponseOnAbort(controllers, call.id)]
  ELSE Loop([Settled(call, outcome) EXCEPT !.idx = NextIndex(call.idx)],
            controllers, abortedNow)

\* The call with the environment it has fetched (lines 77, 119).
Fetched(call) == [call EXCEPT !.environment = CurrentEnvironment]

\* The history of an id once one of its calls has moved: "returned" as soon
\* as a processRequest for it returns the request.
PhaseAfter(before, after) ==
  IF after.kind = "request" /\ before.pc # "done" /\ after.result.status = "request"
  THEN [phase EXCEPT ![after.id] = "returned"]
  ELSE phase

\* Whether an id is live once one of its calls has moved: it is as soon as
\* a processRequest for it returns the request, and no longer as soon as a
\* processResponse for it resolves.
LiveAfter(after) ==
  IF after.result.status = "request" THEN [live EXCEPT ![after.id] = TRUE]
  ELSE IF after.result.status = "resolved" THEN [live EXCEPT ![after.id] = FALSE]
  ELSE live

\* The state after call c has run as far as `step` takes it.
Advance(c, step) ==
  /\ calls' = [calls EXCEPT ![c] = step.call]
  /\ abortControllers' = step.controllers
  /\ phase' = PhaseAfter(calls[c], step.call)
  /\ live' = LiveAfter(step.call)
  /\ UNCHANGED <<aborted, cPermissions, cEnvironment, cContext>>

\* ---------------------------------------------------------------- actions

\* processRequest is called (lines 70-73): a new controller, then the
\* pre-actions are awaited.
StartRequest(id) ==
  /\ Len(calls) < MaxCalls
  /\ calls' = Append(calls, NewCall("request", id, Len(calls) + 1, FALSE, FALSE))
  /\ UNCHANGED <<abortControllers, aborted, phase, live, cPermissions, cEnvironment, cContext>>

\* A processResponse that always makes a controller of its own.
ResponseTokenFresh(registered, fresh) == fresh

\* processResponse, lines 110-113: the controller registered for the id, or
\* a new one when there is none.
ResponseToken(registered, fresh) ==
  IF registered # NoToken THEN registered ELSE fresh

\* processResponse is called (lines 109-117): the registered controller or a
\* new one, then the post-actions are awaited.
StartResponse(id) ==
  /\ Len(calls) < MaxCalls
  /\ LET token == ResponseToken(abortControllers[id], Len(calls) + 1)
     IN calls' = Append(calls, NewCall("response", id, token,
                                       phase[id] # "none", phase[id] = "aborted"))
  /\ phase' = [phase EXCEPT ![id] = "none"]
  /\ UNCHANGED <<abortControllers, aborted, live, cPermissions, cEnvironment, cContext>>

\* processRequestActions has resolved (line 73): the environment is awaited
\* (line 77).
RequestActionsDone(c) ==
  /\ calls[c].kind = "request" /\ calls[c].pc = "actions"
  /\ calls' = [calls EXCEPT ![c].pc = "env"]
  /\ UNCHANGED <<abortControllers, aborted, phase, live, cPermissions, cEnvironment, cContext>>

\* The environment has resolved (line 77) and options.evaluateVariables is
\* not false: the variables are evaluated (lines 78-82).
RequestEvaluateVariables(c) ==
  /\ calls[c].kind = "request" /\ calls[c].pc = "env"
  /\ calls' = [calls EXCEPT ![c] = [Fetched(calls[c]) EXCEPT !.pc = "vars"]]
  /\ UNCHANGED <<abortControllers, aborted, phase, live, cPermissions, cEnvironment, cContext>>

\* The environment has resolved (line 77) and options.evaluateVariables is
\* false: the loop is entered (lines 84-97).
RequestSkipVariables(c) ==
  /\ calls[c].kind = "request" /\ calls[c].pc = "env"
  /\ Advance(c, Loop(Fetched(calls[c]), abortControllers, aborted))

\* evaluateVariables has resolved (line 81): the loop is entered.
RequestVariablesDone(c) ==
  /\ calls[c].kind = "request" /\ calls[c].pc = "vars"
  /\ Advance(c, Loop(calls[c], abortControllers, aborted))

\* processResponseActions has resolved (line 115): the environment is
\* awaited (line 119).
ResponseActionsDone(c) ==
  /\ calls[c].kind = "response" /\ calls[c].pc = "actions"
  /\ calls' = [calls EXCEPT ![c].pc = "env"]
  /\ UNCHANGED <<abortControllers, aborted, phase, live, cPermissions, cEnvironment, cContext>>

\* The environment has resolved (line 119): the loop is entered.
ResponseEnvironmentDone(c) ==
  /\ calls[c].kind = "response" /\ calls[c].pc = "env"
  /\ Advance(c, Loop(Fetched(calls[c]), abortControllers, aborted))

\* buildExecutionContext has resolved (lines 144, 168): the module's
\* function is called (lines 147, 171).
InvokeModule(c) ==
  /\ calls[c].pc = "ctx"
  /\ calls' = [calls EXCEPT ![c].pc = "module",
                            ![c].log = Append(@, <<"start", ModuleAt(calls[c]).id>>)]
  /\ UNCHANGED <<abortControllers, aborted, phase, live, cPermissions, cEnvironment, cContext>>

\* The module's function has settled: the call goes on to its next await or
\* returns.
ModuleSettles(c, outcome) ==
  /\ calls[c].pc = "module"
  /\ Advance(c, AfterModule(calls[c], abortControllers, aborted, outcome))

\* An abort that forgets every controller of the map.
AbortedStateClearing(controllers, abortedNow, id) ==
  IF controllers[id] = NoToken
  THEN [controllers |-> controllers, aborted |-> abortedNow]
  ELSE [controllers |-> [i \in DOMAIN controllers |-> NoToken],
        aborted |-> abortedNow \cup {controllers[id]}]

\* An abort that leaves the controller in the map.
AbortedStateKeeping(controllers, abortedNow, id) ==
  IF controllers[id] = NoToken
  THEN [controllers |-> controllers, aborted |-> abortedNow]
  ELSE [controllers |-> controllers,
        aborted |-> abortedNow \cup {controllers[id]}]

\* abort(id), lines 53-60: the controllers map and the aborted controllers
\* it leaves.
AbortedState(controllers, abortedNow, id) ==
  IF controllers[id] = NoToken
  THEN [controllers |-> controllers, aborted |-> abortedNow]
  ELSE [controllers |-> MapDelete(controllers, id),
        aborted |-> abortedNow \cup {controllers[id]}]

\* abort(id) on the state of the factory.
AbortEffect(id) ==
  LET after == AbortedState(abortControllers, aborted, id)
  IN /\ abortControllers' = after.controllers
     /\ aborted' = after.aborted

\* abort(id) is called.
Abort(id) ==
  /\ AbortEffect(id)
  /\ phase' = [phase EXCEPT ![id] = IF @ = "returned" THEN "aborted" ELSE @]
  /\ live' = [live EXCEPT ![id] = FALSE]
  /\ UNCHANGED <<calls, cPermissions, cEnvironment, cContext>>

\* Where abort(id) finds a call that is for this id and has heard of no
\* abort yet: before its first module is invoked, or while module abortK
\* is running.
Heard(call, id) ==
  IF call.id # id \/ call.abortAt # "none" THEN call
  ELSE IF call.pc \in {"actions", "env", "vars"}
  THEN [call EXCEPT !.abortAt = "pre"]
  ELSE IF call.pc = "module"
  THEN [call EXCEPT !.abortAt = "module", !.abortK = call.idx]
  ELSE call

\* abort(id) is called, and every call it finds running for the id records
\* where it was.
AbortObserved(id) ==
  /\ AbortEffect(id)
  /\ calls' = [c \in DOMAIN calls |-> Heard(calls[c], id)]
  /\ phase' = [phase EXCEPT ![id] = IF @ = "returned" THEN "aborted" ELSE @]
  /\ live' = [live EXCEPT ![id] = FALSE]
  /\ UNCHANGED <<cPermissions, cEnvironment, cContext>>

\* The steps of the calls in flight and the start of new ones.
CallStep ==
  \/ \E id \in Ids : StartRequest(id)
  \/ \E id \in Ids : StartResponse(id)
  \/ \E c \in DOMAIN calls : RequestActionsDone(c)
  \/ \E c \in DOMAIN calls : RequestEvaluateVariables(c)
  \/ \E c \in DOMAIN calls : RequestSkipVariables(c)
  \/ \E c \in DOMAIN calls : RequestVariablesDone(c)
  \/ \E c \in DOMAIN calls : ResponseActionsDone(c)
  \/ \E c \in DOMAIN calls : ResponseEnvironmentDone(c)
  \/ \E c \in DOMAIN calls : InvokeModule(c)
  \/ \E c \in DOMAIN calls : \E outcome \in ModuleOutcomes : ModuleSettles(c, outcome)

Next ==
  \/ CallStep
  \/ \E id \in Ids : Abort(id)

Spec == Init /\ [][Next]_vars

\* The same program, with every abort call observed by the calls in flight.
NextObserved ==
  \/ CallStep
  \/ \E id \in Ids : AbortObserved(id)

SpecObserved == Init /\ [][NextObserved]_vars

\* ------------------------------------------- writes through the context

\* The objects a module reaches through its context: the context itself, its
\* Events and Store bundles and the environment.
WriteTargets == {"context", "Events", "Store", "environment"}

\* Object.freeze: the context (line 201), the Events bundle (line 221) and
\* the Store bundle (line 244) are frozen; the environment is the object the
\* provider returned, stored as it is (line 193).
Frozen(target) == target \in {"context", "Events", "Store"}

\* The content a module's write gives the object it lands on.
Tampered == "tampered"

\* The call after the module it is running has assigned to a field of
\* `target`: nothing changes when the module has no such object or the
\* object is frozen; a write to the environment changes the object the call
\* hands to every module.
WriteThrough(call, target) ==
  IF target # "context" /\ target \notin DOMAIN call.ctx THEN call
  ELSE IF Frozen(target) THEN call
  ELSE [call EXCEPT !.environment = Tampered]

\* The module a call is running assigns to a field of an object of its
\* context.
ModuleWrites(c, target) ==
  /\ calls[c].pc = "module"
  /\ calls' = [calls EXCEPT ![c] = WriteThrough(calls[c], target)]
  /\ UNCHANGED <<abortControllers, aborted, phase, live, cPermissions, cEnvironment, cContext>>

\* The same program, with modules that write through their context.
NextWrites ==
  \/ CallStep
  \/ \E id \in Ids : Abort(id)
  \/ \E c \in DOMAIN calls : \E target \in WriteTargets : ModuleWrites(c, target)

SpecWrites == Init /\ [][NextWrites]_vars

\* ------------------------------------------- buildExecutionContext alone

\* The arrays of at most n permission strings.
PermissionArrays(n) == UNION {[1..k -> PermissionNames] : k \in 0..n}

InitContext ==
  /\ abortControllers = [id \in Ids |-> NoToken]
  /\ aborted = {}
  /\ calls = <<>>
  /\ phase = [id \in Ids |-> "none"]
  /\ live = [id \in Ids |-> FALSE]
  /\ cPermissions \in PermissionArrays(MaxPermissions)
  /\ cEnvironment \in Environments
  /\ cContext = NoContext

\* buildExecutionContext(permissions, environment) is called.
BuildContext ==
  /\ cContext = NoContext
  /\ cContext' = BuildExecutionContext(cPermissions, cEnvironment)
  /\ UNCHANGED <<abortControllers, aborted, calls, phase, live, cPermissions, cEnvironment>>

SpecContext == InitContext /\ [][BuildContext]_vars

\* ----------------------------------------------------------------- claims

\* The calls of one kind made so far.
CallsOf(kind) == {c \in DOMAIN calls : calls[c].kind = kind}

\* The number of modules a call has invoked.
Invoked(call) == (Len(call.log) + 1) \div 2

\* C1: in both pipelines the modules are invoked in registration order and
\* one after the other: the log of every call is start 1, end 1, start 2,
\* end 2, ... over a prefix of the registered list, so module k+1 starts only
\* after module k has ended and no module is invoked twice.
C1_SequentialInOrder ==
  \A c \in DOMAIN calls :
    LET call == calls[c]
        modules == ModulesRegistryGet(call.kind)
    IN /\ Len(call.log) <= 2 * NumModules
       /\ \A i \in DOMAIN call.log :
            call.log[i] = <<IF i % 2 = 1 THEN "start" ELSE "end",
                            modules[(i + 1) \div 2].id>>

\* A processRequest and a processResponse that have each run every module.
C1_Witness ==
  \E c \in CallsOf("request") : \E d \in CallsOf("response") :
    /\ calls[c].pc = "done" /\ Len(calls[c].log) = 2 * NumModules
    /\ calls[d].pc = "done" /\ Len(calls[d].log) = 2 * NumModules

\* C2: abort(id) called while processRequest for id is in its pre-actions,
\* environment fetch or variable evaluation makes the call invoke no module
\* and resolve to null.
C2_AbortBeforeModules ==
  \A c \in CallsOf("request") :
    calls[c].abortAt = "pre" =>
      /\ calls[c].log = <<>>
      /\ calls[c].pc = "done" => calls[c].result.status = "null"

\* C3: abort(id) called while request module k < N is running: module k runs
\* to completion and its mark stays on the request, no later module is
\* invoked, and processRequest resolves to null.
C3_AbortDuringRequestModule ==
  \A c \in CallsOf("request") :
    LET call == calls[c]
    IN (call.abortAt = "module" /\ call.abortK < NumModules) =>
         /\ Invoked(call) <= call.abortK
         /\ (call.pc = "done" /\ call.threw = 0) =>
              /\ call.result.status = "null"
              /\ Includes(call.marks, ModulesRegistryGet("request")[call.abortK].id)

\* C4: in a processResponse that follows a processRequest which returned the
\* request for the id, abort(id) called while response module k < N is
\* running: no later module is invoked and, unless module k itself throws,
\* the call resolves.
C4_AbortDuringResponseModule ==
  \A c \in CallsOf("response") :
    LET call == calls[c]
    IN (call.follows /\ call.abortAt = "module" /\ call.abortK < NumModules) =>
         /\ Invoked(call) <= call.abortK
         /\ (call.pc = "done" /\ call.threw = 0) => call.result.status = "resolved"

\* C5: once a module has returned ABORT the call is over without an error
\* and has invoked no later module: processRequest has resolved to null,
\* processResponse has resolved.
C5_AbortSignalStops ==
  \A c \in DOMAIN calls :
    LET call == calls[c]
    IN call.signalled # 0 =>
         /\ call.pc = "done"
         /\ Invoked(call) = call.signalled
         /\ call.result.status = IF call.kind = "request" THEN "null" ELSE "resolved"

\* A processRequest and a processResponse stopped by the ABORT of a module
\* that is not the last one.
C5_Witness ==
  \E c \in CallsOf("request") : \E d \in CallsOf("response") :
    /\ calls[c].signalled # 0 /\ calls[c].signalled < NumModules
    /\ calls[d].signalled # 0 /\ calls[d].signalled < NumModules

\* C6: once a module has thrown, the call has rejected with a message that
\* holds the module's id and the message of the error thrown, no later
\* module has been invoked, and the outcome is neither null nor a normal
\* return.
C6_ThrowRejects ==
  \A c \in DOMAIN calls :
    LET call == calls[c]
    IN call.threw # 0 =>
         /\ call.pc = "done"
         /\ call.result.status = "rejected"
         /\ call.result.status \notin {"null", "resolved", "request"}
         /\ call.result.message.id = ModulesRegistryGet(call.kind)[call.threw].id
         /\ call.result.message.message = call.thrown
         /\ call.thrown \in ErrorMessages
         /\ Invoked(call) = call.threw

\* A processRequest and a processResponse that rejected on the throw of a
\* module that is not the last one.
C6_Witness ==
  \E c \in CallsOf("request") : \E d \in CallsOf("response") :
    /\ calls[c].threw # 0 /\ calls[c].threw < NumModules
    /\ calls[d].threw # 0 /\ calls[d].threw < NumModules
    /\ calls[c].result.status = "rejected" /\ calls[d].result.status = "rejected"

\* C7: a processResponse for id that starts after processRequest returned
\* the request for id and abort(id) was then called invokes no module.
C7_AbortBetweenPhases ==
  \A c \in CallsOf("response") :
    calls[c].abortBetween => calls[c].log = <<>>

\* The permissions of an array, as a set.
Granted(permissions) == {permissions[i] : i \in DOMAIN permissions}

\* C8: the context built for a permissions array has eventsTarget always,
\* environment (the environment given), Events and Store exactly when the
\* array holds "environment", "events" and "store", and its Store holds the
\* Environment and Variable entries exactly when the array holds both
\* "store" and "environment".
C8_ContextByPermissions ==
  cContext # NoContext =>
    LET P == Granted(cPermissions)
        fields == DOMAIN cContext
        hasStore == "Store" \in fields
    IN /\ "eventsTarget" \in fields
       /\ "environment" \in fields <=> "environment" \in P
       /\ "environment" \in fields => cContext["environment"] = {cEnvironment}
       /\ "Events" \in fields <=> "events" \in P
       /\ hasStore <=> "store" \in P
       /\ fields \subseteq {"eventsTarget", "environment", "Events", "Store"}
       /\ (hasStore /\ "Environment" \in cContext["Store"])
            <=> ("store" \in P /\ "environment" \in P)
       /\ (hasStore /\ "Variable" \in cContext["Store"])
            <=> ("store" \in P /\ "environment" \in P)

\* A context built for "store" without "environment": a Store that holds
\* neither the Environment nor the Variable entry.
C8_Witness ==
  /\ cContext # NoContext
  /\ "store" \in Granted(cPermissions)
  /\ "environment" \notin Granted(cPermissions)
  /\ "Store" \in DOMAIN cContext
  /\ "Environment" \notin cContext["Store"]
  /\ "Variable" \notin cContext["Store"]

\* Call c returns in this step with the given status.
Returns(c, kind, status) ==
  /\ calls[c].kind = kind
  /\ calls[c].pc # "done"
  /\ calls'[c].pc = "done"
  /\ calls'[c].result.status = status

\* C9: whenever a processResponse resolves (all modules done, a module
\* returned ABORT, or the cancellation was seen), no controller is registered
\* for its id right after.
C9_ResponseResolvedEndsToken ==
  [][\A c \in DOMAIN calls :
       Returns(c, "response", "resolved") =>
         abortControllers'[calls[c].id] = NoToken]_vars

\* A processResponse that took over the controller a processRequest had
\* registered and resolved on a module's ABORT, with the controller not
\* aborted and no longer registered.
C9_Witness ==
  \E c \in CallsOf("response") :
    /\ calls[c].token # c
    /\ calls[c].token \notin aborted
    /\ calls[c].signalled # 0
    /\ calls[c].result.status = "resolved"
    /\ abortControllers[calls[c].id] = NoToken

\* C10: whenever a processRequest or a processResponse rejects because a
\* module threw, no controller is registered for its id right after.
C10_RejectedEndsToken ==
  [][\A c \in DOMAIN calls :
       (Returns(c, "request", "rejected") \/ Returns(c, "response", "rejected")) =>
         abortControllers'[calls[c].id] = NoToken]_vars

\* C11: whenever a processRequest resolves to null (a module returned ABORT
\* or the cancellation was seen), no controller is registered for its id
\* right after, also when an earlier processRequest for the id had left one.
C11_RequestNullEndsToken ==
  [][\A c \in DOMAIN calls :
       Returns(c, "request", "null") =>
         abortControllers'[calls[c].id] = NoToken]_vars

\* Call d starts in this step.
Starts(d, kind) ==
  /\ Len(calls') = Len(calls) + 1
  /\ d = Len(calls')
  /\ calls'[d].kind = kind

\* C12: a processRequest that ends with no module having returned ABORT or
\* thrown returns the request and leaves its own controller, not aborted,
\* registered for the id; and a processResponse that starts while a
\* controller is registered for its id polls that controller, not a new one.
C12_TokenCarriedOver ==
  [][/\ \A c \in CallsOf("request") :
          (/\ calls[c].pc # "done" /\ calls'[c].pc = "done"
           /\ calls'[c].signalled = 0 /\ calls'[c].threw = 0) =>
            /\ calls'[c].result.status = "request"
            /\ abortControllers'[calls[c].id] = calls[c].token
            /\ calls[c].token \notin aborted'
     /\ \A d \in DOMAIN calls' :
          (Starts(d, "response") /\ abortControllers[calls'[d].id] # NoToken) =>
            calls'[d].token = abortControllers[calls'[d].id]]_vars

\* A processRequest that returned the request and a later processResponse
\* for the same id that polls the controller the request registered.
C12_Witness ==
  \E c \in CallsOf("request") : \E d \in CallsOf("response") :
    /\ c < d
    /\ calls[c].id = calls[d].id
    /\ calls[c].result.status = "request"
    /\ calls[d].token = calls[c].token
    /\ calls[d].token \notin aborted

\* The id of call c was never passed to processRequest.
NeverRequested(c) ==
  \A d \in CallsOf("request") : calls[d].id # calls[c].id

\* C13: a processResponse for an id never passed to processRequest runs on a
\* controller of its own: once it is over with no module having returned
\* ABORT or thrown, it has invoked every response module in order and has
\* resolved, and no controller is registered for the id.
C13_ResponseWithoutRequest ==
  \A c \in CallsOf("response") :
    LET call == calls[c]
        modules == ModulesRegistryGet("response")
    IN (NeverRequested(c) /\ call.pc = "done"
        /\ call.signalled = 0 /\ call.threw = 0) =>
         /\ call.token \notin aborted
         /\ Len(call.log) = 2 * NumModules
         /\ \A k \in 1..NumModules :
              /\ call.log[2 * k - 1] = <<"start", modules[k].id>>
              /\ call.log[2 * k] = <<"end", modules[k].id>>
         /\ call.result.status = "resolved"
         /\ abortControllers[call.id] = NoToken

\* A processResponse for an id never passed to processRequest that has run
\* every module and resolved.
C13_Witness ==
  \E c \in CallsOf("response") :
    /\ NeverRequested(c)
    /\ calls[c].token = c
    /\ calls[c].result.status = "resolved"
    /\ Len(calls[c].log) = 2 * NumModules
    /\ abortControllers[calls[c].id] = NoToken

\* C14: a step that aborts a controller aborts the one registered for some
\* id a, and for every other id b it leaves the entry of the map as it was,
\* aborts the controller of no call made for b and leaves every call made
\* for b as it was.
C14_AbortIsPerId ==
  [][\A t \in aborted' \ aborted :
       \E a \in Ids :
         /\ abortControllers[a] = t
         /\ \A b \in Ids \ {a} :
              /\ abortControllers'[b] = abortControllers[b]
              /\ \A c \in DOMAIN calls :
                   calls[c].id = b =>
                     /\ calls[c].token # t
                     /\ calls'[c] = calls[c]]_vars

\* The controller of a call for one id is aborted while another id has a
\* controller registered that is not.
C14_Witness ==
  \E a \in Ids : \E b \in Ids \ {a} :
    /\ \E c \in DOMAIN calls : calls[c].id = a /\ calls[c].token \in aborted
    /\ abortControllers[b] # NoToken
    /\ abortControllers[b] \notin aborted

\* C15: in every state abort(id) has a result: with no controller registered
\* for id it changes nothing; with one registered it aborts that controller
\* and removes the entry of id alone; and a second abort(id) right after
\* changes nothing more.
C15_AbortIdempotent ==
  \A id \in Ids :
    LET once == AbortedState(abortControllers, aborted, id)
        twice == AbortedState(once.controllers, once.aborted, id)
    IN /\ abortControllers[id] = NoToken =>
            /\ once.controllers = abortControllers
            /\ once.aborted = aborted
       /\ abortControllers[id] # NoToken =>
            /\ once.aborted = aborted \cup {abortControllers[id]}
            /\ once.controllers[id] = NoToken
            /\ \A other \in Ids \ {id} :
                 once.controllers[other] = abortControllers[other]
       /\ twice = once

\* An abort has acted, and a controller is registered for the next one.
C15_Witness ==
  /\ aborted # {}
  /\ \E id \in Ids : abortControllers[id] # NoToken

\* C16: all calls in flight for one id poll the same controller, and it is
\* the one registered for the id when one is registered.
C16_OneTokenPerId ==
  \A c \in DOMAIN calls :
    calls[c].pc # "done" =>
      /\ \A d \in DOMAIN calls :
           (calls[d].pc # "done" /\ calls[d].id = calls[c].id) =>
             calls[d].token = calls[c].token
      /\ abortControllers[calls[c].id] # NoToken =>
           abortControllers[calls[c].id] = calls[c].token

\* C17: a processResponse that made a controller of its own has it registered
\* for its id while it runs (until an abort is called for the id), and
\* abort(id) called while its module k < N is running keeps modules k+1..N
\* from being invoked.
C17_FreshTokenRegistered ==
  \A c \in CallsOf("response") :
    LET call == calls[c]
    IN call.token = c =>
         /\ (call.pc # "done" /\ call.abortAt = "none") =>
              abortControllers[call.id] = call.token
         /\ (call.abortAt = "module" /\ call.abortK < NumModules) =>
              Invoked(call) <= call.abortK

\* C18: whatever a module assigns through its context, the environment of
\* its call stays as the provider reported it, and so does the environment
\* in the context handed to every module.
C18_ContextDeeplyImmutable ==
  \A c \in DOMAIN calls :
    /\ calls[c].environment \in {NoEnvironment, CurrentEnvironment}
    /\ (calls[c].pc \in {"ctx", "module"}
        /\ "environment" \in DOMAIN calls[c].ctx) =>
         calls[c].ctx["environment"] = {CurrentEnvironment}

\* C19: a processResponse that returns leaves in the map a controller that
\* is registered for its id and is not the one it polled.
C19_CleanupOwnTokenOnly ==
  [][\A c \in CallsOf("response") :
       (/\ calls[c].pc # "done" /\ calls'[c].pc = "done"
        /\ abortControllers[calls[c].id] # NoToken
        /\ abortControllers[calls[c].id] # calls[c].token) =>
         abortControllers'[calls[c].id] = abortControllers[calls[c].id]]_vars

\* C20: a controller in the map is not aborted, and an id has an entry only
\* if a processRequest for it returned the request and since then no
\* abort(id) was called and no processResponse for it resolved.
C20_RegistryLive ==
  \A id \in Ids :
    abortControllers[id] # NoToken =>
      /\ abortControllers[id] \notin aborted
      /\ live[id]

\* An id that has a controller registered again after an abort of an
\* earlier one.
C20_Witness ==
  \E id \in Ids :
    /\ abortControllers[id] # NoToken
    /\ \E c \in DOMAIN calls : calls[c].id = id /\ calls[c].token \in aborted

====
